---- MODULE Spec2Model ----
(***************************************************************************)
(* Protected-push orchestration of action-push-to-protected.               *)
(*                                                                         *)
(* The orchestrator is run() of src/src/main.ts; the branch-protection     *)
(* client and the check-suite poller are the three-argument variant of     *)
(* octokit-requests (src/unnamed/part_001), the one main.ts calls.         *)
(*                                                                         *)
(* One action is one turn of the Node event loop: the arrival of the       *)
(* result of the pending external call (or the firing of a timer) and all  *)
(* the synchronous code and promise continuations that follow it, up to    *)
(* the point where the next external call has been issued.                 *)
(*                                                                         *)
(* The action runs on node16 (src/package.json:98): a promise that rejects *)
(* with no handler ends the process with a non-zero exit code.  The        *)
(* callbacks given to setInterval and setTimeout are async functions whose *)
(* promises nobody handles, so an exception thrown in one of them ends the *)
(* process (pc = "crashed"): it never reaches the promise returned by      *)
(* waitForCheckSuites, which has no reject path.                           *)
(*                                                                         *)
(* The poller's two timers run against a clock in seconds that starts when *)
(* waitForCheckSuites is called and jumps from one due time to the next;   *)
(* answers of requests arrive at any moment in between.                    *)
(*                                                                         *)
(* Spec is the run of the action from its first git call on.  ToSpec      *)
(* exercises the helper `to` of src/src/utils.ts on its own, over          *)
(* settlements that run() never hands it (a promise that resolves with     *)
(* undefined or null, a rejection with a value that is not an Error).      *)
(* InputSpec is the step before Spec: getInputs of src/src/inputs.ts on    *)
(* the texts given as timeoutSeconds and intervalSeconds.                  *)
(***************************************************************************)
EXTENDS Integers, Sequences, FiniteSets, TLC

(* ---------------------------------------------------------------- bounds *)

\* Longest check-run list the platform answers with.
MaxRuns == 2
\* Most interval samples whose request is outstanding at the same time.
MaxInFlight == 2
\* Largest ahead-count / behind-count of HEAD relative to origin/<target>.
MaxAhead == 1
MaxBehind == 1
\* Most operations a caller wraps with `to` one after the other.
MaxOps == 2
\* Longest text of the inputs timeoutSeconds and intervalSeconds.
MaxInputLen == 2

(* ------------------------------------------------------------ data model *)

\* Names of check runs: "lint" and "test" may be required, "docs" never is.
CheckNames == {"lint", "test", "docs"}

\* Required-check sets the branch protection of the target may hold.
RequiredSets == {<<>>, <<"lint">>, <<"lint", "test">>}

\* A check run as the Checks API reports it: conclusion is null until the
\* status is completed.
CheckRuns ==
  { r \in [name : CheckNames,
           status : {"in_progress", "completed"},
           conclusion : {"null", "success", "failure"}] :
      (r.status = "completed") <=> (r.conclusion # "null") }

\* The check-run lists a listForRef request can answer with.
Samples == UNION { [1..n -> CheckRuns] : n \in 0..MaxRuns }

\* Outcome of the listForRef request: the list, or a request error by status.
ListOutcomes == {"ok", "401", "422", "500"}

\* Outcome of the getBranch request for the temporary branch inside
\* getStatusOfChecks: no required contexts, some, or a request error.
BranchOutcomes == {"none", "some", "error"}

\* Values of the inputs timeoutSeconds and intervalSeconds, in seconds, among
\* those getInputs lets through.  The interval is positive, so a poll starts
\* at most timeoutSeconds / intervalSeconds interval samples.
TimeoutValues == {10, 60}
IntervalValues == {10, 30}

\* Values a wrapped operation resolves with, and reasons it rejects with:
\* "Error" and "RequestError" are instances of Error, "string" is not.
ToValues == {"undefined", "null", "false", "value"}
ToReasons == {"Error", "RequestError", "string"}

\* The ways the promise handed to `to` settles.
Settlements ==
  [kind : {"resolved"}, with : ToValues] \cup
  [kind : {"rejected"}, with : ToReasons]

\* Values of the input commitArgs after matchGitArgs; getInputs reads the
\* input only when shouldCommit is set.
CommitArgsValues == {<<>>, <<"--allow-empty">>}

\* Commits: HEAD as the run finds it, the commit the commit helper makes on
\* top of it, and the commit the local target branch points to.
Commits == {"base", "new", "target"}

\* Answer of the deleteRef request: the ref was deleted, the platform found
\* no such ref (somebody else removed the branch), or another request error.
DeleteAnswers == {"ok", "notFound", "err"}

VARIABLES
  pc,                    \* the external call run() is waiting for
  shouldCommit,          \* input shouldCommit
  commitArgs,            \* input commitArgs as parsed, <<>> once the commit
                         \* step is over
  treeDirty,             \* the first git.status reported a tree that is not clean
  configWritten,         \* the commit helper wrote the identity to the
                         \* repository configuration
  warned,                \* the uncommitted-changes warning was logged
  headMoved,             \* the commit helper made a commit on top of HEAD
  calls,                 \* external calls issued so far (history)
  failures,              \* tags of the setFailed calls so far, in order
  aheadCount,            \* Number(revListCount.trim()); -1 before it is read
  behindCount,           \* commits of origin/<target> missing from HEAD
  requiredKnown,         \* the required-check lookup has answered
  requiredStatusChecks,  \* its answer
  tempPushed,            \* the push of the temporary branch succeeded
  remoteTemp,            \* the temporary branch exists on the remote
  targetPushed,          \* the push of the target branch succeeded
  timeoutArmed,          \* timeoutId is pending
  intervalArmed,         \* intervalId is active
  timeoutFired,          \* the timeout callback has run
  inflight,              \* interval samples awaiting getStatusOfChecks
  diagInflight,          \* the timeout callback awaits getStatusOfChecks
  timeoutSeconds,        \* timeoutOptions of the running poll, 0 outside it
  intervalSeconds,
  now,                   \* seconds since waitForCheckSuites was called
  nextTick,              \* the moment the interval timer is due next
  attempts,              \* interval samples the running poll has started
  crashCause,            \* what ended the process: "timeout", "diagError",
                         \* "lateTimeout", "lateSample" or the error of a
                         \* sample of the pending poll
  resolved,              \* resolve() was called on the poll promise
  statusOnTemp,          \* the value the poll promise resolved with
  sampleSeen,            \* an interval sample was evaluated while pending
  lastAnyCompleted,      \* the last such sample: AnyRunCompleted
  lastFirstCompleted,    \* the last such sample: FirstRunCompleted
  firstOnlySamples,      \* such samples that were OnlyFirstSucceeded, up to 2
  returned,              \* the try block of run() was left by return
  deleteCalls,           \* calls of deleteRemoteBranch so far
  deleteResult,          \* "none", or the answer of deleteRef
  taskCompleted,         \* "> Task completed." was logged
  forced,                \* push calls issued with the option -f
  head,                  \* the commit that is checked out
  tempCommit,            \* the commit of the temporary branch, "none" before
  targetCommit,          \* the commit pushed to the target, "none" before
  rawTimeout,            \* input timeoutSeconds as text, <<>> once getInputs
                         \* has accepted the inputs
  rawInterval,           \* input intervalSeconds as text, likewise
  toPending,             \* settlements of the operations still to be wrapped
  toReturned             \* what the calls of `to` made so far gave the caller

vars == <<pc, shouldCommit, commitArgs, configWritten, treeDirty, warned, headMoved, calls, failures, aheadCount, behindCount,
          requiredKnown, requiredStatusChecks, tempPushed, remoteTemp,
          targetPushed, timeoutArmed, intervalArmed, timeoutFired, inflight,
          diagInflight, timeoutSeconds, intervalSeconds, now, nextTick,
          attempts, crashCause, resolved, statusOnTemp, sampleSeen,
          lastAnyCompleted, lastFirstCompleted, firstOnlySamples, returned,
          deleteCalls, deleteResult, taskCompleted, forced, head,
          tempCommit, targetCommit, rawTimeout, rawInterval, toPending,
          toReturned>>

treeVars == <<treeDirty, warned, headMoved>>
envVars == <<shouldCommit, treeVars, aheadCount, behindCount, requiredKnown,
             requiredStatusChecks>>
remoteVars == <<tempPushed, remoteTemp, targetPushed>>
timerVars == <<timeoutArmed, intervalArmed, timeoutFired>>
sampleVars == <<sampleSeen, lastAnyCompleted, lastFirstCompleted,
                firstOnlySamples>>
clockVars == <<timeoutSeconds, intervalSeconds, now, nextTick, attempts>>
pollVars == <<inflight, diagInflight, resolved, statusOnTemp, sampleVars,
              clockVars, crashCause>>
endVars == <<returned, deleteCalls, deleteResult, taskCompleted>>
gitVars == <<forced, head, tempCommit, targetCommit>>
toVars == <<toPending, toReturned>>
inputVars == <<rawTimeout, rawInterval>>

(* --------------------------------------------------------- pure functions *)

\* Characters of the texts given as timeoutSeconds and intervalSeconds: two
\* digits, the sign and a letter.  getInput has trimmed white space.
InputDigits == {"0", "5"}
InputChars == InputDigits \cup {"-", "s"}

\* The texts themselves, as sequences of characters.
RawInputs == UNION { [1..n -> InputChars] : n \in 0..MaxInputLen }

DigitValue(c) == IF c = "5" THEN 5 ELSE 0

\* The longest prefix of s made of digits.
RECURSIVE DigitPrefix(_)
DigitPrefix(s) ==
  IF s = <<>> \/ Head(s) \notin InputDigits
    THEN <<>>
    ELSE <<Head(s)>> \o DigitPrefix(Tail(s))

\* The number a sequence of digits denotes in radix 10.
RECURSIVE DecimalValue(_)
DecimalValue(s) ==
  IF s = <<>>
    THEN 0
    ELSE 10 * DecimalValue(SubSeq(s, 1, Len(s) - 1)) + DigitValue(s[Len(s)])

\* parseInt of ECMAScript with radix 10: an optional sign, then the longest
\* prefix of digits; what follows that prefix is ignored, and NaN is the
\* result only when the prefix is empty.
ParseInt(s) ==
  LET negative == s # <<>> /\ Head(s) = "-"
      body == IF negative THEN Tail(s) ELSE s
      z == DigitPrefix(body)
  IN  IF z = <<>> THEN [nan |-> TRUE, val |-> 0]
      ELSE [nan |-> FALSE,
            val |-> IF negative THEN 0 - DecimalValue(z) ELSE DecimalValue(z)]

\* Whether getInputs throws for the two texts: a comparison with NaN is
\* false, so the range test passes NaN on to the isNaN test.
GetInputsThrows(rawT, rawI) ==
  LET t == ParseInt(rawT)
      i == ParseInt(rawI)
  IN  \/ (~t.nan /\ t.val < 0) \/ (~i.nan /\ i.val < 0)
      \/ t.nan \/ i.nan

\* Array.prototype.find by name: index of the first run named n, 0 if none.
FindCheckRun(s, n) ==
  IF \E i \in 1..Len(s) : s[i].name = n
    THEN CHOOSE i \in 1..Len(s) :
           /\ s[i].name = n
           /\ \A j \in 1..(i - 1) : s[j].name # n
    ELSE 0

\* The completion test of the older poller (src/src/octokit-requests.ts:114):
\* every reported run is completed, whatever its name.
EveryCheckCompleted(req, s) ==
  \A i \in 1..Len(s) : s[i].status = "completed"

\* hasAllRequiredChecksCompleted of waitForCheckSuites.
HasAllRequiredChecksCompleted(req, s) ==
  \A k \in 1..Len(req) :
    LET i == FindCheckRun(s, req[k])
    IN  /\ i # 0
        /\ s[i].status = "completed"

\* The inverted success test of an earlier run() (src/unnamed/part_004:212).
PassedOnTempInverted(s) ==
  \A i \in 1..Len(s) : s[i].conclusion # "success"

\* passedOnTemp of run().
PassedOnTemp(s) ==
  \A i \in 1..Len(s) : s[i].conclusion = "success"

\* A run() that commits a dirty tree whatever shouldCommit says.
CommitsWheneverDirty(clean, commitInput) == ~clean

\* Whether run() calls the commit helper after the first git.status.
CommitsChanges(clean, commitInput) == ~clean /\ commitInput

\* An ahead test that lets a count of 0 through.
IsNotAheadNegativeOnly(count) == count < 0

\* The ahead-check of run(): aheadCount === 0.
IsNotAhead(count) == count = 0

\* The sampling function without the last throw of its catch block and
\* without the lookup of the required checks: a request error whose status
\* is neither 401 nor 422 falls out of the catch block and the caller gets
\* undefined in place of a list (error names the failure that was dropped).
GetStatusOfChecksFallsThrough(lo, s, bo) ==
  IF lo \in {"401", "422"} THEN [threw |-> TRUE, error |-> lo, runs |-> <<>>]
  ELSE IF lo # "ok" THEN [threw |-> FALSE, error |-> lo, runs |-> <<>>]
  ELSE [threw |-> FALSE, error |-> "none", runs |-> s]

\* getStatusOfChecks: what the caller gets from the two requests it makes.
\* A request error of listForRef is rethrown whatever its status (401 after
\* an error line, 422 after a debug line), an error of getBranch is rethrown,
\* and an empty list for a branch with required contexts throws ChecksError.
GetStatusOfChecks(lo, s, bo) ==
  IF lo # "ok" THEN [threw |-> TRUE, error |-> lo, runs |-> <<>>]
  ELSE IF bo = "error"
    THEN [threw |-> TRUE, error |-> "getBranch", runs |-> <<>>]
  ELSE IF Len(s) = 0 /\ bo = "some"
    THEN [threw |-> TRUE, error |-> "noChecks", runs |-> <<>>]
  ELSE [threw |-> FALSE, error |-> "none", runs |-> s]

\* Everything one call of getStatusOfChecks can give its caller.
StatusResults ==
  { GetStatusOfChecks(lo, s, bo) :
      lo \in ListOutcomes, s \in Samples, bo \in BranchOutcomes }

\* Whether a call of getStatusOfChecks throws.
StatusThrows == { r.threw : r \in StatusResults }

\* What a call of getStatusOfChecks throws, "none" when it returns.
StatusErrors == { r.error : r \in StatusResults }

\* A run() that gives both pushes the option -f.
PushOptionsAllForced(call) == {"-f"}

\* The options of the two pushes: git.push("origin", temporaryBranch, ["-f"])
\* and git.push().
PushOptions(call) ==
  IF call = "pushTemp" THEN {"-f"} ELSE {}

\* The push call when it carries -f.
Forced(call) ==
  IF "-f" \in PushOptions(call) THEN {call} ELSE {}

\* A reset that leaves the checked-out branch where it is.
HardResetSkipped(current, commit) == current

\* git reset --hard <commit>: the checked-out branch points to the commit.
HardReset(current, commit) == commit

\* A commit helper whose catch block only logs: the helper goes on to
\* git.listConfig and git.commit after a failed addConfig.
AfterAddConfigSwallowed(ok) == "listConfig"

\* The commit helper after its addConfig chain: the catch block rethrows, so
\* nothing after the try runs when the chain failed.
AfterAddConfig(ok) == IF ok THEN "listConfig" ELSE "throw"

\* A catch block of `to` without the instanceof test: every rejection is
\* captured into the pair.
IsErrorWhatever(reason) == TRUE

\* error instanceof Error.
IsError(reason) == reason \in {"Error", "RequestError"}

\* to(func): [await func, null] when the promise resolves, [null, e] when it
\* rejects with an Error; any other rejection is thrown on to the caller.
To(settlement) ==
  IF settlement.kind = "resolved"
    THEN [threw |-> FALSE, value |-> settlement.with, error |-> "null"]
  ELSE IF ~IsError(settlement.with)
    THEN [threw |-> TRUE, value |-> "null", error |-> settlement.with]
  ELSE [threw |-> FALSE, value |-> "null", error |-> settlement.with]

\* A slot of the pair holds something.
Populated(slot) == slot \notin {"null", "undefined"}

\* deleteRemoteBranch: the catch block logs the message of a request error
\* and rethrows it, whatever its status.
DeleteRemoteBranch(answer) ==
  [threw |-> answer # "ok"]

(* ------------------------------------------- what a sample shows (ghosts) *)

\* For every required name, some run of that name is completed.
AnyRunCompleted(req, s) ==
  \A k \in 1..Len(req) :
    \E i \in 1..Len(s) : s[i].name = req[k] /\ s[i].status = "completed"

\* For every required name, the first listed run of that name is completed.
FirstRunCompleted(req, s) ==
  \A k \in 1..Len(req) :
    \E i \in 1..Len(s) :
      /\ s[i].name = req[k]
      /\ s[i].status = "completed"
      /\ \A j \in 1..Len(s) : j < i => s[j].name # req[k]

\* Of two required checks the first has completed with success and the
\* second has no completed run yet.
OnlyFirstSucceeded(req, s) ==
  /\ Len(req) = 2
  /\ LET i == FindCheckRun(s, req[1])
     IN  /\ i # 0
         /\ s[i].conclusion = "success"
  /\ \A j \in 1..Len(s) : s[j].name = req[2] => s[j].status # "completed"

\* The sample was evaluated by an interval callback while the poll promise
\* was pending.
RecordSample(s) ==
  /\ sampleSeen' = TRUE
  /\ lastAnyCompleted' = AnyRunCompleted(requiredStatusChecks, s)
  /\ lastFirstCompleted' = FirstRunCompleted(requiredStatusChecks, s)
  /\ firstOnlySamples' =
       IF OnlyFirstSucceeded(requiredStatusChecks, s) /\ firstOnlySamples < 2
         THEN firstOnlySamples + 1
         ELSE firstOnlySamples

(* ------------------------------------------------------- control helpers *)

\* Issue the next external call and wait for it.
Issue(call, next) ==
  /\ pc' = next
  /\ calls' = calls \cup {call}
  /\ failures' = failures

\* errorHandler / setFailed followed by return, outside the inner try.
Abort(tag) ==
  /\ pc' = "done"
  /\ calls' = calls
  /\ failures' = Append(failures, tag)

\* A run() whose try/finally is opened before the temporary branch is
\* created: a failed creation or push leaves through the finally block and
\* deleteRemoteBranch is called for a branch that was never pushed.
FailStagingInsideTry(tag) ==
  /\ pc' = "deleteRef"
  /\ calls' = calls \cup {"deleteRef"}
  /\ failures' = Append(failures, tag)

\* run() on a failed creation or push of the temporary branch: errorHandler,
\* then return, before the try whose finally deletes the branch.
FailStaging(tag) ==
  /\ pc' = "done"
  /\ calls' = calls
  /\ failures' = Append(failures, tag)

\* errorHandler for a failed commit helper without the return that follows
\* it: the failure is signalled and the run goes on to the second git.status.
FailCommitAndContinue(tag) ==
  /\ pc' = "status2"
  /\ calls' = calls \cup {"status2"}
  /\ failures' = Append(failures, tag)

\* run() on an error of the commit helper: errorHandler, then return.
FailCommit(tag) ==
  /\ pc' = "done"
  /\ calls' = calls
  /\ failures' = Append(failures, tag)

\* A return that ends the run without the finally block, as in the run() that
\* deleted the branch only at the end of the success path
\* (src/unnamed/part_004:215-220).
AbortWithoutCleanup(tag) ==
  /\ pc' = "done"
  /\ calls' = calls
  /\ failures' = Append(failures, tag)
  /\ returned' = TRUE
  /\ deleteCalls' = deleteCalls

\* errorHandler / setFailed followed by return inside the inner try: the
\* finally block issues deleteRemoteBranch.
AbortWithCleanup(tag) ==
  /\ pc' = "deleteRef"
  /\ calls' = calls \cup {"deleteRef"}
  /\ failures' = Append(failures, tag)
  /\ returned' = TRUE
  /\ deleteCalls' = deleteCalls + 1

(* ------------------------------------------------------------------ Init *)

\* The state of a run that has not issued a call yet.
StartInit ==
  /\ shouldCommit \in BOOLEAN
  /\ commitArgs \in (IF shouldCommit THEN CommitArgsValues ELSE {<<>>})
  /\ treeDirty = FALSE
  /\ configWritten = FALSE
  /\ warned = FALSE
  /\ headMoved = FALSE
  /\ failures = <<>>
  /\ aheadCount = -1
  /\ behindCount = 0
  /\ requiredKnown = FALSE
  /\ requiredStatusChecks = <<>>
  /\ tempPushed = FALSE
  /\ remoteTemp = FALSE
  /\ targetPushed = FALSE
  /\ timeoutArmed = FALSE
  /\ intervalArmed = FALSE
  /\ timeoutFired = FALSE
  /\ inflight = 0
  /\ diagInflight = FALSE
  /\ timeoutSeconds = 0
  /\ intervalSeconds = 0
  /\ now = 0
  /\ nextTick = 0
  /\ attempts = 0
  /\ crashCause = "none"
  /\ resolved = FALSE
  /\ statusOnTemp = <<>>
  /\ sampleSeen = FALSE
  /\ lastAnyCompleted = FALSE
  /\ lastFirstCompleted = FALSE
  /\ firstOnlySamples = 0
  /\ returned = FALSE
  /\ deleteCalls = 0
  /\ deleteResult = "none"
  /\ taskCompleted = FALSE
  /\ forced = {}
  /\ head = "base"
  /\ tempCommit = "none"
  /\ targetCommit = "none"

\* run() after getInputs returned: checkIsRepo is issued.
RunInit ==
  /\ pc = "checkIsRepo"
  /\ calls = {"checkIsRepo"}
  /\ StartInit

Init ==
  /\ RunInit
  /\ rawTimeout = <<>>
  /\ rawInterval = <<>>
  /\ toPending = <<>>
  /\ toReturned = <<>>

(* --------------------------------------------- orchestrator, steps 1 - 9 *)

CheckIsRepo ==
  /\ pc = "checkIsRepo"
  /\ \E r \in {"repo", "notRepo", "error"} :
       IF r = "repo" THEN Issue("status", "status")
                     ELSE Abort("NotARepository")
  /\ UNCHANGED <<envVars, remoteVars, timerVars, pollVars, endVars>>
  /\ UNCHANGED <<configWritten, commitArgs, toVars, inputVars, gitVars>>

\* The first git.status answers.  A dirty tree is committed when
\* shouldCommit is set; otherwise a warning is logged and the run goes on to
\* the second git.status.
GitStatus ==
  /\ pc = "status"
  /\ \E r \in {"clean", "dirty", "error"} :
       IF r = "error"
         THEN /\ Abort("StatusFailed")
              /\ UNCHANGED <<treeDirty, warned>>
         ELSE /\ treeDirty' = (r = "dirty")
              /\ IF CommitsChanges(r = "clean", shouldCommit)
                   THEN /\ Issue("addConfig", "addConfig")
                        /\ warned' = warned
                   ELSE /\ Issue("status2", "status2")
                        /\ warned' = (r = "dirty")
  /\ UNCHANGED <<shouldCommit, headMoved, aheadCount, behindCount,
                 requiredKnown, requiredStatusChecks, remoteVars, timerVars,
                 pollVars, endVars>>
  /\ UNCHANGED <<configWritten, commitArgs, toVars, inputVars, gitVars>>

\* The chain of six addConfig commands of the commit helper answers.  When
\* it fails, the helper logs and rethrows, and run() handles the error of
\* the helper; otherwise the helper goes on to git.listConfig.
AddConfig ==
  /\ pc = "addConfig"
  /\ \E ok \in BOOLEAN :
       /\ configWritten' = ok
       /\ IF AfterAddConfig(ok) = "throw"
            THEN FailCommit("CommitFailed")
            ELSE Issue("listConfig", "listConfig")
  /\ UNCHANGED <<envVars, remoteVars, timerVars, pollVars, endVars>>
  /\ UNCHANGED <<commitArgs, toVars, inputVars, gitVars>>

\* git.listConfig of the commit helper answers; the helper logs the
\* configuration and issues git.commit.  A failure here rejects the helper.
ListConfig ==
  /\ pc = "listConfig"
  /\ \E ok \in BOOLEAN :
       IF ok THEN Issue("commit", "commit")
             ELSE FailCommit("CommitFailed")
  /\ UNCHANGED <<envVars, remoteVars, timerVars, pollVars, endVars>>
  /\ UNCHANGED <<configWritten, commitArgs, toVars, inputVars, gitVars>>

\* git.commit answers: the helper returns the hash of the commit it made,
\* or it throws.
Commit ==
  /\ pc = "commit"
  /\ \E ok \in BOOLEAN :
       IF ok THEN /\ Issue("status2", "status2")
                  /\ headMoved' = TRUE
                  /\ head' = "new"
             ELSE /\ FailCommit("CommitFailed")
                  /\ headMoved' = headMoved
                  /\ head' = head
  /\ UNCHANGED <<shouldCommit, treeDirty, warned, aheadCount, behindCount,
                 requiredKnown, requiredStatusChecks, remoteVars, timerVars,
                 pollVars, endVars>>
  /\ commitArgs' = <<>>
  /\ UNCHANGED <<configWritten, toVars, inputVars, forced, tempCommit, targetCommit>>

\* The second git.status answers; a tree that is still dirty is only logged.
\* Nothing reads the commit inputs from here on.
GitStatus2 ==
  /\ pc = "status2"
  /\ \E ok \in BOOLEAN :
       IF ok THEN Issue("fetch", "fetch") ELSE Abort("StatusFailed")
  /\ commitArgs' = <<>>
  /\ UNCHANGED <<envVars, remoteVars, timerVars, pollVars, endVars>>
  /\ UNCHANGED <<configWritten, toVars, inputVars, gitVars>>

Fetch ==
  /\ pc = "fetch"
  /\ \E ok \in BOOLEAN :
       IF ok THEN Issue("branch", "branch") ELSE Abort("FetchFailed")
  /\ UNCHANGED <<envVars, remoteVars, timerVars, pollVars, endVars>>
  /\ UNCHANGED <<configWritten, commitArgs, toVars, inputVars, gitVars>>

Branch ==
  /\ pc = "branch"
  /\ \E r \in {"exists", "missing", "error"} :
       IF r = "exists" THEN Issue("revparse", "revparse")
       ELSE IF r = "missing" THEN Abort("TargetBranchMissing")
       ELSE Abort("BranchListFailed")
  /\ UNCHANGED <<envVars, remoteVars, timerVars, pollVars, endVars>>
  /\ UNCHANGED <<configWritten, commitArgs, toVars, inputVars, gitVars>>

RevParse ==
  /\ pc = "revparse"
  /\ \E ok \in BOOLEAN :
       IF ok THEN Issue("revlist", "revlist") ELSE Abort("RevParseFailed")
  /\ UNCHANGED <<envVars, remoteVars, timerVars, pollVars, endVars>>
  /\ UNCHANGED <<configWritten, commitArgs, toVars, inputVars, gitVars>>

\* rev-list --count origin/<target>..HEAD answers with the ahead-count; a
\* commit made by this run is one commit origin/<target> does not have.
RevList ==
  /\ pc = "revlist"
  /\ \/ /\ Abort("RevListFailed")
        /\ UNCHANGED <<aheadCount, behindCount>>
     \/ \E a \in 0..MaxAhead, b \in 0..MaxBehind :
          /\ headMoved => a >= 1
          /\ aheadCount' = a
          /\ behindCount' = b
          /\ IF IsNotAhead(a) THEN Abort("NotAhead")
                              ELSE Issue("getBranch", "getBranch")
  /\ UNCHANGED <<shouldCommit, treeVars, requiredKnown,
                 requiredStatusChecks, remoteVars, timerVars, pollVars,
                 endVars>>
  /\ UNCHANGED <<configWritten, commitArgs, toVars, inputVars, gitVars>>

\* getRequiredStatusChecksForBranch answers.  An empty answer calls
\* setFailed and, having no return, goes on to create the temporary branch.
RequiredChecks ==
  /\ pc = "getBranch"
  /\ \/ /\ Abort("ProtectionLookupFailed")
        /\ UNCHANGED <<requiredKnown, requiredStatusChecks>>
     \/ \E req \in RequiredSets :
          /\ requiredKnown' = TRUE
          /\ requiredStatusChecks' = req
          /\ pc' = "checkoutTemp"
          /\ calls' = calls \cup {"checkoutTemp"}
          /\ failures' = IF Len(req) <= 0
                           THEN Append(failures, "NoChecksRequired")
                           ELSE failures
  /\ UNCHANGED <<shouldCommit, treeVars, aheadCount, behindCount,
                 remoteVars, timerVars, pollVars, endVars>>
  /\ UNCHANGED <<configWritten, commitArgs, toVars, inputVars, gitVars>>

\* git checkout -f -b <temporary branch> answers: the branch is created at
\* HEAD, and the push of it is issued with -f.
CheckoutTemp ==
  /\ pc = "checkoutTemp"
  /\ \E ok \in BOOLEAN :
       IF ok THEN /\ Issue("pushTemp", "pushTemp")
                  /\ tempCommit' = head
                  /\ forced' = forced \cup Forced("pushTemp")
             ELSE /\ FailStaging("TempBranchCreateFailed")
                  /\ UNCHANGED <<tempCommit, forced>>
  /\ UNCHANGED <<envVars, remoteVars, timerVars, pollVars, endVars>>
  /\ UNCHANGED <<configWritten, commitArgs, toVars, inputVars, head, targetCommit>>

\* The push of the temporary branch answers; on success waitForCheckSuites
\* is called with the two inputs and its executor arms first the timeout,
\* then the interval timer.  No sample is taken before the first tick.
PushTemp ==
  /\ pc = "pushTemp"
  /\ \/ /\ FailStaging("TempBranchPushFailed")
        /\ UNCHANGED <<remoteVars, timerVars, clockVars>>
     \/ /\ pc' = "polling"
        /\ UNCHANGED <<calls, failures>>
        /\ tempPushed' = TRUE
        /\ remoteTemp' = TRUE
        /\ timeoutArmed' = TRUE
        /\ intervalArmed' = TRUE
        /\ \E t \in TimeoutValues, i \in IntervalValues :
             /\ timeoutSeconds' = t
             /\ intervalSeconds' = i
             /\ nextTick' = i
        /\ now' = 0
        /\ attempts' = 0
        /\ UNCHANGED <<targetPushed, timeoutFired>>
  /\ UNCHANGED <<envVars, inflight, diagInflight, resolved, statusOnTemp,
                 sampleVars, crashCause, endVars>>
  /\ UNCHANGED <<configWritten, commitArgs, toVars, inputVars, gitVars>>

(* ------------------------------------------------ check-suite poller *)

\* The timeout is due.
TimeoutDue == timeoutArmed /\ now >= timeoutSeconds

\* The interval timer is due.  Two timers of the same duration are kept in
\* one list in the order they were created, so with equal inputs the timeout,
\* created first, runs first.
IntervalDue ==
  /\ intervalArmed
  /\ now >= nextTick
  /\ ~(TimeoutDue /\ timeoutSeconds = intervalSeconds)

\* The next moment at which a timer is due.
NextDue ==
  IF intervalArmed /\ nextTick < timeoutSeconds
    THEN nextTick
    ELSE timeoutSeconds

\* A resolving callback that clears the interval only: the timeout timer
\* stays armed behind the resolved poll.
ClearIntervalOnly ==
  /\ timeoutArmed' = timeoutArmed
  /\ intervalArmed' = FALSE

\* The resolving interval callback cancels both timers before it resolves:
\* clearTimeout(timeoutId), clearInterval(intervalId).
ClearBothTimers ==
  /\ timeoutArmed' = FALSE
  /\ intervalArmed' = FALSE

\* The poll state ends with the poll: once both timers are cleared by
\* resolve, nothing reads the options, the clock or the count again.
ClockReset ==
  /\ timeoutSeconds' = 0
  /\ intervalSeconds' = 0
  /\ now' = 0
  /\ nextTick' = 0
  /\ attempts' = 0

\* Time passes until the next timer is due.  The timeout stays armed as long
\* as the interval is, so the clock never passes timeoutSeconds.
TimePasses ==
  /\ pc # "crashed"
  /\ timeoutArmed
  /\ now < NextDue
  /\ now' = NextDue
  /\ UNCHANGED <<pc, calls, failures, envVars, remoteVars, timerVars,
                 inflight, diagInflight, timeoutSeconds, intervalSeconds,
                 nextTick, attempts, crashCause, resolved, statusOnTemp,
                 sampleVars, endVars>>
  /\ UNCHANGED <<configWritten, commitArgs, toVars, inputVars, gitVars>>

\* The interval timer ticks: its callback starts getStatusOfChecks.  Nothing
\* in the callback looks at whether an earlier sample is still outstanding.
\* When the tick and the timeout are due at the same moment and the inputs
\* differ, either may run first.
IntervalTick ==
  /\ pc # "crashed"
  /\ IntervalDue
  /\ inflight < MaxInFlight
  /\ inflight' = inflight + 1
  /\ attempts' = attempts + 1
  /\ nextTick' = now + intervalSeconds
  /\ calls' = calls \cup {"listForRef"}
  /\ UNCHANGED <<pc, failures, envVars, remoteVars, timerVars, diagInflight,
                 timeoutSeconds, intervalSeconds, now, crashCause, resolved,
                 statusOnTemp, sampleVars, endVars>>
  /\ UNCHANGED <<configWritten, commitArgs, toVars, inputVars, gitVars>>

\* getStatusOfChecks of an interval callback answers while the poll promise
\* is pending, and the callback runs to its end.  When it resolves the
\* promise, run() continues in the same turn: it evaluates the conclusions
\* and issues either the checkout of the target branch or, through the
\* finally block, the branch deletion.
SampleResponse ==
  /\ pc = "polling"
  /\ inflight > 0
  /\ inflight' = inflight - 1
  /\ UNCHANGED <<envVars, remoteVars, timeoutFired, diagInflight,
                 deleteResult, taskCompleted>>
  /\ \E r \in StatusResults :
       IF r.threw
         THEN /\ pc' = "crashed"
              /\ crashCause' = r.error
              /\ UNCHANGED <<calls, failures, timeoutArmed, intervalArmed,
                             clockVars, resolved, statusOnTemp, sampleVars,
                             returned, deleteCalls>>
       ELSE IF HasAllRequiredChecksCompleted(requiredStatusChecks, r.runs)
         THEN /\ ClearBothTimers
              /\ ClockReset
              /\ crashCause' = crashCause
              /\ resolved' = TRUE
              /\ statusOnTemp' = r.runs
              /\ RecordSample(r.runs)
              /\ IF PassedOnTemp(r.runs)
                   THEN /\ Issue("checkoutTarget", "checkoutTarget")
                        /\ UNCHANGED <<returned, deleteCalls>>
                   ELSE AbortWithCleanup("RequiredCheckFailed")
       ELSE /\ RecordSample(r.runs)
            /\ UNCHANGED <<pc, calls, failures, timeoutArmed, intervalArmed,
                           clockVars, crashCause, resolved, statusOnTemp,
                           returned, deleteCalls>>
  /\ UNCHANGED <<configWritten, commitArgs, toVars, inputVars, gitVars>>

\* getStatusOfChecks of an interval callback answers after the promise was
\* resolved by another sample.  Both timers are cleared by then and resolve
\* on a settled promise does nothing, so all that is left of the callback is
\* whether it throws.
LateSampleResponse ==
  /\ pc \notin {"polling", "crashed"}
  /\ inflight > 0
  /\ inflight' = inflight - 1
  /\ \E threw \in StatusThrows :
       /\ pc' = IF threw THEN "crashed" ELSE pc
       /\ crashCause' = IF threw THEN "lateSample" ELSE crashCause
  /\ UNCHANGED <<calls, failures, envVars, remoteVars, timerVars,
                 diagInflight, clockVars, resolved, statusOnTemp, sampleVars,
                 endVars>>
  /\ UNCHANGED <<configWritten, commitArgs, toVars, inputVars, gitVars>>

\* The timeout fires: its callback clears the interval and starts a last
\* getStatusOfChecks for the diagnostic message.
TimeoutFire ==
  /\ pc # "crashed"
  /\ TimeoutDue
  /\ timeoutArmed' = FALSE
  /\ intervalArmed' = FALSE
  /\ timeoutFired' = TRUE
  /\ diagInflight' = TRUE
  /\ calls' = calls \cup {"listForRef"}
  /\ UNCHANGED <<pc, failures, envVars, remoteVars, inflight, clockVars,
                 crashCause, resolved, statusOnTemp, sampleVars, endVars>>
  /\ UNCHANGED <<configWritten, commitArgs, toVars, inputVars, gitVars>>

\* The diagnostic getStatusOfChecks answers.  When it returns a list, the
\* timeout callback logs a hint and throws the timeout error; when it
\* throws, its error leaves the callback at the await and the timeout error
\* is never constructed.  Either way the promise of the async callback
\* rejects unhandled and the process ends.  The two errors are told apart
\* while the poll is pending; behind a poll that a late sample resolved the
\* cause is recorded as "lateTimeout" for both.
DiagResponse ==
  /\ pc # "crashed"
  /\ diagInflight
  /\ diagInflight' = FALSE
  /\ pc' = "crashed"
  /\ IF resolved
       THEN crashCause' = "lateTimeout"
       ELSE \E threw \in StatusThrows :
              crashCause' = IF threw THEN "diagError" ELSE "timeout"
  /\ UNCHANGED <<calls, failures, envVars, remoteVars, timerVars, inflight,
                 clockVars, resolved, statusOnTemp, sampleVars, endVars>>
  /\ UNCHANGED <<configWritten, commitArgs, toVars, inputVars, gitVars>>

(* ------------------------------------------- orchestrator, steps 12 - 14 *)

\* git checkout <target> answers: the local target branch is checked out.
CheckoutTarget ==
  /\ pc = "checkoutTarget"
  /\ \E ok \in BOOLEAN :
       IF ok THEN /\ Issue("reset", "reset")
                  /\ UNCHANGED <<returned, deleteCalls>>
                  /\ head' = "target"
             ELSE /\ AbortWithCleanup("FastForwardFailed")
                  /\ head' = head
  /\ UNCHANGED <<envVars, remoteVars, timerVars, pollVars, deleteResult,
                 taskCompleted>>
  /\ UNCHANGED <<configWritten, commitArgs, toVars, inputVars, forced, tempCommit, targetCommit>>

\* git reset --hard <temporary branch> answers: the target branch points to
\* the commit of the temporary branch, and git.push() is issued.
Reset ==
  /\ pc = "reset"
  /\ \E ok \in BOOLEAN :
       IF ok THEN /\ Issue("pushTarget", "pushTarget")
                  /\ UNCHANGED <<returned, deleteCalls>>
                  /\ head' = HardReset(head, tempCommit)
                  /\ forced' = forced \cup Forced("pushTarget")
             ELSE /\ AbortWithCleanup("FastForwardFailed")
                  /\ UNCHANGED <<head, forced>>
  /\ UNCHANGED <<envVars, remoteVars, timerVars, pollVars, deleteResult,
                 taskCompleted>>
  /\ UNCHANGED <<configWritten, commitArgs, toVars, inputVars, tempCommit, targetCommit>>

\* git.push() of the target answers; the try block ends either way and the
\* finally block issues deleteRemoteBranch.
PushTarget ==
  /\ pc = "pushTarget"
  /\ \/ /\ AbortWithCleanup("FastForwardFailed")
        /\ targetPushed' = targetPushed
        /\ targetCommit' = targetCommit
     \/ /\ Issue("deleteRef", "deleteRef")
        /\ returned' = returned
        /\ deleteCalls' = deleteCalls + 1
        /\ targetPushed' = TRUE
        /\ targetCommit' = head
  /\ UNCHANGED <<envVars, tempPushed, remoteTemp, timerVars, pollVars,
                 deleteResult, taskCompleted>>
  /\ UNCHANGED <<configWritten, commitArgs, toVars, inputVars, forced, head, tempCommit>>

\* deleteRef answers.  deleteRemoteBranch rethrows a request error; thrown
\* from the finally block it reaches the outer catch, which calls setFailed.
DeleteRef ==
  /\ pc = "deleteRef"
  /\ pc' = "done"
  /\ \E answer \in DeleteAnswers :
       /\ deleteResult' = answer
       /\ remoteTemp' = IF answer = "err" THEN remoteTemp ELSE FALSE
       /\ IF DeleteRemoteBranch(answer).threw
            THEN /\ taskCompleted' = taskCompleted
                 /\ failures' = Append(failures, "CleanupFailed")
            ELSE /\ taskCompleted' = ~returned
                 /\ failures' = failures
  /\ UNCHANGED <<calls, envVars, tempPushed, targetPushed, timerVars,
                 pollVars, returned, deleteCalls>>
  /\ UNCHANGED <<configWritten, commitArgs, toVars, inputVars, gitVars>>

(* ---------------------------------------------------------- specification *)

Next ==
  \/ CheckIsRepo \/ GitStatus \/ AddConfig \/ ListConfig \/ Commit
  \/ GitStatus2 \/ Fetch \/ Branch
  \/ RevParse \/ RevList \/ RequiredChecks \/ CheckoutTemp \/ PushTemp
  \/ TimePasses \/ IntervalTick \/ SampleResponse \/ LateSampleResponse
  \/ TimeoutFire \/ DiagResponse
  \/ CheckoutTarget \/ Reset \/ PushTarget \/ DeleteRef

Spec == Init /\ [][Next]_vars

(* ------------------------------------------------ the helper `to` alone *)

\* run() wraps up to MaxOps operations, one after the other, and does
\* nothing else with them.
ToInit ==
  /\ RunInit
  /\ rawTimeout = <<>>
  /\ rawInterval = <<>>
  /\ toPending \in UNION { [1..n -> Settlements] : n \in 0..MaxOps }
  /\ toReturned = <<>>

\* The next operation settles and `to` hands its result to the caller.
\* What `to` throws is not caught before the outer catch of run(); that
\* catch calls setFailed for an Error only, and `to` throws no Error, so
\* run() ends there without a failure signalled.
ToCall ==
  /\ pc # "done"
  /\ toPending # <<>>
  /\ toPending' = Tail(toPending)
  /\ toReturned' = Append(toReturned, To(Head(toPending)))
  /\ pc' = IF To(Head(toPending)).threw THEN "done" ELSE pc
  /\ UNCHANGED <<calls, failures, envVars, remoteVars, timerVars,
                 pollVars, endVars, gitVars, commitArgs, configWritten,
                 inputVars>>

ToNext == ToCall

ToSpec == ToInit /\ [][ToNext]_vars

\* The process is over: it crashed, or run() returned and nothing is left
\* that keeps the event loop alive.
ProcessEnded ==
  \/ pc = "crashed"
  \/ /\ pc = "done"
     /\ inflight = 0
     /\ ~diagInflight
     /\ ~timeoutArmed
     /\ ~intervalArmed

\* The outcome Succeeded: run() reached its last statement.
Succeeded == pc = "done" /\ taskCompleted

\* Check-run list requests the running poll has made: one per interval
\* sample and one by the timeout callback.
ListRequests == attempts + (IF timeoutFired THEN 1 ELSE 0)

\* Failure tags that report an external call that answered with an error.
CallFailureTags ==
  {"StatusFailed", "CommitFailed", "FetchFailed", "BranchListFailed",
   "RevParseFailed", "RevListFailed", "ProtectionLookupFailed",
   "TempBranchCreateFailed", "TempBranchPushFailed", "FastForwardFailed",
   "CleanupFailed"}

\* No external call of the run has answered with an error.
AllCallsSucceeded ==
  /\ crashCause = "none"
  /\ \A j \in 1..Len(failures) : failures[j] \notin CallFailureTags

\* Once run() is past the poll, no poller timer is armed.
SettledTimersCleared ==
  pc \in {"checkoutTarget", "reset", "pushTarget", "deleteRef", "done"}
    => ~timeoutArmed /\ ~intervalArmed

TypeOK ==
  /\ rawTimeout \in RawInputs
  /\ rawInterval \in RawInputs
  /\ pc \in {"getInputs", "checkIsRepo", "status", "addConfig", "listConfig", "commit",
             "status2", "fetch", "branch",
             "revparse", "revlist", "getBranch", "checkoutTemp", "pushTemp",
             "polling", "checkoutTarget", "reset", "pushTarget", "deleteRef",
             "done", "crashed"}
  /\ shouldCommit \in BOOLEAN
  /\ commitArgs \in CommitArgsValues
  /\ treeDirty \in BOOLEAN
  /\ configWritten \in BOOLEAN
  /\ headMoved => configWritten
  /\ forced \subseteq {"pushTemp", "pushTarget"}
  /\ head \in Commits
  /\ tempCommit \in Commits \cup {"none"}
  /\ targetCommit \in Commits \cup {"none"}
  /\ headMoved <=> "new" \in {head, tempCommit, targetCommit}
  /\ warned \in BOOLEAN
  /\ headMoved \in BOOLEAN
  /\ aheadCount \in -1..MaxAhead
  /\ behindCount \in 0..MaxBehind
  /\ requiredStatusChecks \in RequiredSets
  /\ inflight \in 0..MaxInFlight
  /\ timeoutSeconds \in TimeoutValues \cup {0}
  /\ intervalSeconds \in IntervalValues \cup {0}
  /\ now \in 0..timeoutSeconds
  /\ attempts \in Nat
  /\ attempts * intervalSeconds <= timeoutSeconds
  /\ firstOnlySamples \in 0..2
  /\ deleteCalls \in 0..1
  /\ crashCause \in StatusErrors \cup
                     {"lateSample", "timeout", "diagError", "lateTimeout"}
  /\ intervalArmed => timeoutArmed
  /\ statusOnTemp \in Samples
  /\ deleteResult \in {"none"} \cup DeleteAnswers
  /\ Len(failures) <= 3

(* ------------------------------------------------------ getInputs alone *)

\* run() before its first statement, with the two inputs as the workflow
\* gave them.
InputInit ==
  /\ pc = "getInputs"
  /\ calls = {}
  /\ StartInit
  /\ rawTimeout \in RawInputs
  /\ rawInterval \in RawInputs
  /\ toPending = <<>>
  /\ toReturned = <<>>

\* getInputs runs.  When it throws, the outer catch of run() calls
\* setFailed with the message and run() ends; otherwise checkIsRepo is
\* issued.
GetInputs ==
  /\ pc = "getInputs"
  /\ IF GetInputsThrows(rawTimeout, rawInterval)
       THEN Abort("InputsRejected")
       ELSE Issue("checkIsRepo", "checkIsRepo")
  /\ UNCHANGED <<envVars, remoteVars, timerVars, pollVars, endVars, gitVars,
                 commitArgs, configWritten, inputVars, toVars>>

InputNext == GetInputs

InputSpec == InputInit /\ [][InputNext]_vars

(* ------------------------------------------------------------ properties *)

\* The calls that stage, poll, fast-forward and clean up.
StagingCalls ==
  {"checkoutTemp", "pushTemp", "listForRef", "checkoutTarget", "reset",
   "pushTarget", "deleteRef"}

\* The calls of the fast-forward step.
FastForwardCalls == {"checkoutTarget", "reset", "pushTarget"}

\* C1: the push of the target branch is issued only after the poll resolved
\* with an observed sample in which every required name has a check run that
\* is completed with conclusion success.
C1_TargetPushOnlyAfterRequiredSuccess ==
  "pushTarget" \in calls =>
    /\ resolved
    /\ \A k \in 1..Len(requiredStatusChecks) :
         \E i \in 1..Len(statusOnTemp) :
           /\ statusOnTemp[i].name = requiredStatusChecks[k]
           /\ statusOnTemp[i].status = "completed"
           /\ statusOnTemp[i].conclusion = "success"

\* C1 witness: the target was pushed in a run with two required checks.
C1_Witness ==
  /\ targetPushed
  /\ "pushTarget" \in calls
  /\ Len(requiredStatusChecks) = 2

\* C2 (as claimed): once the temporary branch was pushed for a required set,
\* the process does not end before deleteRemoteBranch was called.
C2_CleanupAttemptedBeforeEnd ==
  (ProcessEnded /\ tempPushed /\ Len(requiredStatusChecks) > 0)
    => "deleteRef" \in calls

\* C3 (as claimed): for a non-empty required set the poll is resolved if and
\* only if an evaluated sample showed, for every required name, some check
\* run of that name with status completed.
C3_ResolvedIffAnyRunCompleted ==
  (requiredKnown /\ Len(requiredStatusChecks) > 0) =>
    (resolved <=> (sampleSeen /\ lastAnyCompleted))

\* C3 (amended): for a non-empty required set the poll is resolved if and
\* only if an evaluated sample showed, for every required name, that the
\* first listed check run of that name has status completed; the value it
\* resolves with is such a sample, whatever its other runs are.
C3_ResolvedIffFirstRunCompleted ==
  (requiredKnown /\ Len(requiredStatusChecks) > 0) =>
    /\ resolved <=> (sampleSeen /\ lastFirstCompleted)
    /\ resolved => FirstRunCompleted(requiredStatusChecks, statusOnTemp)

\* C3 witness: the poll resolved for a required set while a run that is not
\* required was still in progress.
C3_Witness ==
  /\ resolved
  /\ Len(requiredStatusChecks) > 0
  /\ \E i \in 1..Len(statusOnTemp) :
       /\ statusOnTemp[i].name = "docs"
       /\ statusOnTemp[i].status = "in_progress"

\* C4 (as claimed): with an empty required-check set the run reports
\* NoChecksRequired and issues no staging, polling, fast-forward or deletion
\* call.
C4_NoChecksRequiredNoSideEffects ==
  (requiredKnown /\ Len(requiredStatusChecks) = 0) =>
    /\ failures = <<"NoChecksRequired">>
    /\ calls \cap StagingCalls = {}

\* C5 (as claimed): when the timeout fired before the poll completed, the
\* run ends having reported PollTimeout and without a fast-forward.
C5_TimeoutReported ==
  (ProcessEnded /\ timeoutFired /\ Len(requiredStatusChecks) > 0) =>
    /\ "PollTimeout" \in {failures[i] : i \in 1..Len(failures)}
    /\ calls \cap FastForwardCalls = {}

\* C6: when the poll resolved with a sample in which a run of a required name
\* has a conclusion other than success, the run has signalled
\* RequiredCheckFailed as its failure, no call of the fast-forward step is
\* ever issued, the target is not pushed, deleteRemoteBranch has been called,
\* and the temporary branch is gone once the deletion succeeded.
C6_RequiredCheckFailedAborts ==
  ( /\ resolved
    /\ \E k \in 1..Len(requiredStatusChecks) :
         \E i \in 1..Len(statusOnTemp) :
           /\ statusOnTemp[i].name = requiredStatusChecks[k]
           /\ statusOnTemp[i].conclusion # "success" ) =>
    /\ Len(failures) >= 1
    /\ failures[1] = "RequiredCheckFailed"
    /\ calls \cap FastForwardCalls = {}
    /\ ~targetPushed
    /\ ~taskCompleted
    /\ "deleteRef" \in calls
    /\ deleteResult = "ok" => ~remoteTemp

\* C6 witness: the run is over after a failed required check and the
\* temporary branch was deleted.
C6_Witness ==
  /\ pc = "done"
  /\ resolved
  /\ failures = <<"RequiredCheckFailed">>
  /\ deleteResult = "ok"
  /\ \E i \in 1..Len(statusOnTemp) :
       /\ statusOnTemp[i].name = "lint"
       /\ statusOnTemp[i].conclusion = "failure"

\* C7 (as claimed): when every run of a required name has conclusion success
\* and every required name has a run, the run proceeds to the fast-forward,
\* whatever the conclusions of the other runs.
C7_OnlyRequiredChecksDecide ==
  ( /\ resolved
    /\ Len(requiredStatusChecks) > 0
    /\ \A k \in 1..Len(requiredStatusChecks) :
         /\ \E i \in 1..Len(statusOnTemp) :
              statusOnTemp[i].name = requiredStatusChecks[k]
         /\ \A i \in 1..Len(statusOnTemp) :
              statusOnTemp[i].name = requiredStatusChecks[k]
                => statusOnTemp[i].conclusion = "success" ) =>
    /\ "checkoutTarget" \in calls
    /\ \A j \in 1..Len(failures) : failures[j] # "RequiredCheckFailed"

\* C8: an ahead-count of 0 ends the run with NotAhead as its only failure,
\* and no required-check lookup, staging, poll, push or deletion is issued.
C8_NotAheadStops ==
  aheadCount = 0 =>
    /\ pc = "done"
    /\ failures = <<"NotAhead">>
    /\ "getBranch" \notin calls
    /\ calls \cap StagingCalls = {}
    /\ ~tempPushed
    /\ ~targetPushed

\* C8 witness: rev-list answered 0 and the run is over.
C8_Witness ==
  /\ aheadCount = 0
  /\ pc = "done"
  /\ "revlist" \in calls

\* C9 (as claimed): the temporary branch is staged only when HEAD is strictly
\* ahead of origin/<target>: at least one commit ahead and none behind.
C9_StagedOnlyWhenStrictlyAhead ==
  ("checkoutTemp" \in calls /\ Len(requiredStatusChecks) > 0)
    => (aheadCount >= 1 /\ behindCount = 0)

\* C10 (as claimed): when the target was pushed and the deletion of the
\* temporary branch failed, no failure is signalled.
C10_CleanupFailureNotEscalated ==
  ( /\ targetPushed
    /\ Len(requiredStatusChecks) > 0
    /\ deleteResult = "err" ) => failures = <<>>

\* C11 (as claimed): deleteRemoteBranch called for a branch that is already
\* absent, the platform answering not-found, completes without raising an
\* error to its caller: run() signals no cleanup failure.
C11_DeleteAbsentBranchRaisesNothing ==
  (deleteResult = "notFound" /\ Len(requiredStatusChecks) > 0) =>
    /\ ~DeleteRemoteBranch(deleteResult).threw
    /\ \A j \in 1..Len(failures) : failures[j] # "CleanupFailed"

\* C12 (as claimed): a run that does not end in Succeeded has signalled
\* failure exactly once when the process ends.
C12_FailureSignalledExactlyOnce ==
  ( /\ ProcessEnded
    /\ ~Succeeded
    /\ ~(requiredKnown /\ Len(requiredStatusChecks) = 0) ) =>
    Len(failures) = 1

\* C13 (as claimed, on finite runs): the process does not end before run()
\* has reached a terminal outcome, and when a poll was started for a required
\* set, not before the await on waitForCheckSuites has settled.
C13_RunEndsWithSettledPoll ==
  (ProcessEnded /\ ~(requiredKnown /\ Len(requiredStatusChecks) = 0)) =>
    /\ pc = "done"
    /\ tempPushed => resolved

\* C14 (as claimed): one required check that never completes, a timeout of
\* 60 seconds and an interval of 10 seconds, every sample answered: when the
\* timeout has ended the poll, exactly 6 check-run list requests were made
\* and the run has reported PollTimeout.
C14_SixSamplesThenPollTimeout ==
  ( /\ ProcessEnded
    /\ timeoutFired
    /\ crashCause \in {"none", "timeout"}
    /\ ~resolved
    /\ requiredStatusChecks = <<"lint">>
    /\ timeoutSeconds = 60
    /\ intervalSeconds = 10 ) =>
    /\ ListRequests = 6
    /\ "PollTimeout" \in {failures[j] : j \in 1..Len(failures)}

\* C15 (as claimed): with a timeout shorter than the interval, the poll has
\* started at least one interval sample by the time the timeout fires.
C15_SampleBeforeShortTimeout ==
  ( /\ timeoutFired
    /\ Len(requiredStatusChecks) > 0
    /\ timeoutSeconds < intervalSeconds ) =>
    attempts >= 1

\* Scenario A: lint and test are required; two evaluated samples showed lint
\* completed with success while test had not completed, and the poll then
\* resolved with a sample of lint and test, both completed with success.
ScenarioA ==
  /\ requiredStatusChecks = <<"lint", "test">>
  /\ firstOnlySamples = 2
  /\ resolved
  /\ Len(statusOnTemp) = 2
  /\ {statusOnTemp[i].name : i \in 1..2} = {"lint", "test"}
  /\ \A i \in 1..2 : statusOnTemp[i].conclusion = "success"

\* C16: in scenario A, with every external call answering without error,
\* the run never signals a failure and calls deleteRemoteBranch at most once;
\* when the process is over the outcome is Succeeded: the target was pushed,
\* no failure was signalled, deleteRemoteBranch was called exactly once and
\* the temporary branch is gone.
C16_ScenarioASucceeds ==
  (ScenarioA /\ AllCallsSucceeded) =>
    /\ failures = <<>>
    /\ "checkoutTarget" \in calls
    /\ deleteCalls <= 1
    /\ ProcessEnded =>
         /\ Succeeded
         /\ targetPushed
         /\ deleteCalls = 1
         /\ ~remoteTemp

\* C16 witness: a run of scenario A is over and has succeeded.
C16_Witness ==
  /\ ScenarioA
  /\ AllCallsSucceeded
  /\ ProcessEnded
  /\ Succeeded
  /\ deleteCalls = 1

\* C17: when the first git.status reports a dirty tree and shouldCommit is
\* false, the warning is logged, the commit helper is never called, no commit
\* is made on top of HEAD, and the run goes on to the second git.status
\* without signalling a failure for the dirty tree.
C17_DirtyTreeNotCommitted ==
  (treeDirty /\ ~shouldCommit) =>
    /\ warned
    /\ calls \cap {"addConfig", "listConfig", "commit"} = {}
    /\ ~headMoved
    /\ "status2" \in calls
    /\ \A j \in 1..Len(failures) : failures[j] # "CommitFailed"
    /\ pc = "status2" => failures = <<>>

\* C17 witness: such a run went all the way to the push of the target.
C17_Witness ==
  /\ treeDirty
  /\ ~shouldCommit
  /\ warned
  /\ "fetch" \in calls
  /\ targetPushed

\* C18 (as claimed): a sample of the pending poll that answers 422 does not
\* end the run: the poll stays pending with its interval timer armed.
C18_UnprocessableSampleKeepsPolling ==
  (crashCause = "422" /\ Len(requiredStatusChecks) > 0) =>
    /\ pc = "polling"
    /\ intervalArmed
    /\ failures = <<>>

\* C19 (as claimed): a sample of the pending poll that answers 401 fails the
\* poll: run() signals the poll error and calls deleteRemoteBranch.
C19_UnauthorizedSampleFailsPoll ==
  (crashCause = "401" /\ Len(requiredStatusChecks) > 0) =>
    /\ "PollError" \in {failures[j] : j \in 1..Len(failures)}
    /\ "deleteRef" \in calls
    /\ pc # "crashed"

\* C20 (as claimed): every pair that `to` returns has exactly one of its two
\* slots populated, whatever the operation settled with.
C20_ExactlyOneSlotPopulated ==
  \A k \in 1..Len(toReturned) :
    ~toReturned[k].threw =>
      (Populated(toReturned[k].value) <=> ~Populated(toReturned[k].error))

\* C21: the only push ever issued with -f is the push of the temporary
\* branch; the push of the target branch carries no force option.
C21_TargetNeverForcePushed ==
  /\ forced \subseteq {"pushTemp"}
  /\ "pushTarget" \in calls => "pushTarget" \notin forced
  /\ "pushTemp" \in calls => "pushTemp" \in forced

\* C21 witness: both pushes were made and the target was pushed.
C21_Witness ==
  /\ targetPushed
  /\ "pushTarget" \in calls
  /\ forced = {"pushTemp"}

\* C22 (as claimed): with shouldCommit set and --allow-empty among the
\* commit arguments, a clean first git.status is followed by a call of the
\* commit helper.
C22_AllowEmptyCommitsCleanTree ==
  ( /\ pc = "status2"
    /\ shouldCommit
    /\ "--allow-empty" \in {commitArgs[i] : i \in 1..Len(commitArgs)}
    /\ ~treeDirty ) =>
    /\ "commit" \in calls
    /\ headMoved

\* C23 (as claimed): once a failure has been signalled, no step issues a git
\* or platform call other than the deletion of the temporary branch.
C23_NoCallAfterFailure ==
  [][ failures # <<>> =>
        /\ calls' \subseteq calls \cup {"deleteRef"}
        /\ inflight' <= inflight
        /\ diagInflight' => diagInflight ]_vars

\* C24 (as claimed): once the poll has resolved or the timeout has fired, no
\* sampling attempt starts any more, and the answer of a sample started
\* earlier is not acted upon: it changes neither the position of the run,
\* nor the poll's resolution, nor the error the process ends with.
C24_NoSampleAfterPollEnded ==
  [][ ( /\ Len(requiredStatusChecks) > 0
        /\ resolved \/ timeoutFired ) =>
        /\ inflight' <= inflight
        /\ inflight' < inflight =>
             /\ pc' = pc
             /\ resolved' = resolved
             /\ crashCause' = crashCause ]_vars

\* C25 (as claimed): a poll whose timeout has fired is never resolved: the
\* answer of a sample that arrives after the timeout callback ran does not
\* complete the poll.
C25_NoCompletionAfterTimeout ==
  (timeoutFired /\ Len(requiredStatusChecks) > 0) => ~resolved

\* C26 (as claimed): at most one check-run request of the poller is
\* outstanding at any time, the diagnostic one of the timeout included.
C26_OneOutstandingSample ==
  inflight + (IF diagInflight THEN 1 ELSE 0) <= 1

\* C27: once the poll has ended, by resolution or by the timeout, no poller
\* timer is armed: the resolving callback has cleared the timeout and the
\* interval, the timeout callback has cleared the interval.
C27_LosingTimerCancelled ==
  (resolved \/ timeoutFired) => ~timeoutArmed /\ ~intervalArmed

\* C27 witness: the poll resolved while the timeout was still armed, the
\* timeout never fired, and run() has gone on to the target push with no
\* poller timer left.
C27_Witness ==
  /\ resolved
  /\ ~timeoutFired
  /\ ~timeoutArmed
  /\ ~intervalArmed
  /\ attempts = 0
  /\ pc = "pushTarget"

\* C28 (as claimed): once the diagnostic sample of a fired timeout has
\* answered on a poll no sample resolved, the process ends with the timeout
\* error, whether that sample returned a list or failed.
C28_TimeoutWhateverDiagnosticReturns ==
  ( /\ timeoutFired
    /\ ~diagInflight
    /\ ~resolved
    /\ Len(requiredStatusChecks) > 0 ) =>
    /\ pc = "crashed"
    /\ crashCause = "timeout"

\* C29: a run whose checks passed and that issued the checkout of the
\* target, but did not push the target, has signalled FastForwardFailed; and
\* whenever FastForwardFailed is signalled, deleteRemoteBranch has been
\* called for the temporary branch, once, and has answered before run()
\* ends.
C29_FastForwardFailureStillCleansUp ==
  /\ ( /\ pc \in {"deleteRef", "done"}
       /\ "checkoutTarget" \in calls
       /\ ~targetPushed ) =>
       "FastForwardFailed" \in {failures[j] : j \in 1..Len(failures)}
  /\ "FastForwardFailed" \in {failures[j] : j \in 1..Len(failures)} =>
       /\ "deleteRef" \in calls
       /\ deleteCalls = 1
       /\ pc \in {"deleteRef", "done", "crashed"}
       /\ pc = "done" => deleteResult \in DeleteAnswers

\* C29 witness: the hard reset failed after a successful checkout of the
\* target, and the run ended with the temporary branch deleted.
C29_Witness ==
  /\ pc = "done"
  /\ failures = <<"FastForwardFailed">>
  /\ "reset" \in calls
  /\ "pushTarget" \notin calls
  /\ deleteResult = "ok"
  /\ ~remoteTemp

\* C30: the temporary branch that was pushed points to the commit the run
\* had checked out when it created the branch (the commit it made, or the
\* commit it started from), no later step moves it, and the commit pushed to
\* the target branch is that commit.
C30_TargetCommitIsTempCommit ==
  /\ tempPushed => tempCommit = (IF headMoved THEN "new" ELSE "base")
  /\ targetPushed =>
       /\ tempPushed
       /\ resolved
       /\ targetCommit = tempCommit

\* C30 witness: the run committed, the checks were observed on the
\* temporary branch, and the target branch received that commit.
C30_Witness ==
  /\ targetPushed
  /\ resolved
  /\ headMoved
  /\ tempCommit = "new"
  /\ targetCommit = "new"
  /\ head = "new"

\* C31 (as claimed): a sample in which a required check has no run, the
\* sample with no run at all included, raises no error: the process never
\* ends because the Checks API listed no run for a branch with required
\* checks.
C31_MissingCheckKeepsSampling ==
  Len(requiredStatusChecks) > 0 => crashCause # "noChecks"

\* C32: a run signals CommitFailed only after the commit helper was called
\* for a dirty tree with shouldCommit set; it is then over with that single
\* failure and without a fetch, a branch lookup, a temporary branch or a
\* push.  A run that ended inside the commit helper has signalled it.
C32_CommitFailureAborts ==
  /\ "CommitFailed" \in {failures[j] : j \in 1..Len(failures)} =>
       /\ treeDirty /\ shouldCommit
       /\ "addConfig" \in calls
       /\ pc = "done"
       /\ failures = <<"CommitFailed">>
       /\ calls \subseteq {"checkIsRepo", "status", "addConfig", "listConfig",
                          "commit"}
       /\ ~headMoved /\ ~tempPushed /\ ~targetPushed /\ deleteCalls = 0
       /\ ~taskCompleted
  /\ (pc = "done" /\ "addConfig" \in calls /\ "status2" \notin calls) =>
       failures = <<"CommitFailed">>

\* C32 witness: git.commit itself failed and the run is over.
C32_Witness ==
  /\ pc = "done"
  /\ failures = <<"CommitFailed">>
  /\ "commit" \in calls
  /\ treeDirty /\ shouldCommit

\* C33: git.commit is issued only after the addConfig chain of the helper
\* was issued and wrote the identity to the repository configuration; a
\* helper that is still waiting for addConfig, or whose addConfig failed,
\* has issued no commit command, and the run ended with CommitFailed.
C33_ConfigBeforeCommit ==
  /\ "commit" \in calls =>
       /\ configWritten
       /\ {"addConfig", "listConfig"} \subseteq calls
  /\ "listConfig" \in calls => "addConfig" \in calls
  /\ pc = "addConfig" => calls \cap {"listConfig", "commit"} = {}
  /\ ( /\ pc # "addConfig"
       /\ "addConfig" \in calls
       /\ ~configWritten ) =>
       /\ "commit" \notin calls
       /\ ~headMoved
       /\ failures = <<"CommitFailed">>

\* C33 witness: the addConfig chain failed and the run ended without a
\* commit command.
C33_Witness ==
  /\ pc = "done"
  /\ ~configWritten
  /\ "addConfig" \in calls
  /\ "listConfig" \notin calls
  /\ "commit" \notin calls
  /\ failures = <<"CommitFailed">>

\* C34 (as claimed): a failed required-check lookup ends the run with the
\* single failure ProtectionLookupFailed and is never reported as
\* NoChecksRequired; an empty answer is never reported as a failed lookup;
\* and in neither case is a temporary branch created.
C34_LookupFailureDistinctFromEmptySet ==
  /\ "ProtectionLookupFailed" \in {failures[j] : j \in 1..Len(failures)} =>
       /\ failures = <<"ProtectionLookupFailed">>
       /\ ~requiredKnown
       /\ pc = "done"
       /\ tempCommit = "none"
  /\ (requiredKnown /\ Len(requiredStatusChecks) = 0) =>
       /\ failures[1] = "NoChecksRequired"
       /\ \A j \in 1..Len(failures) : failures[j] # "ProtectionLookupFailed"
       /\ tempCommit = "none"

\* A text that is a number: an optional sign followed by digits only.
IsNumericText(s) ==
  LET body == IF s # <<>> /\ Head(s) = "-" THEN Tail(s) ELSE s
  IN  body # <<>> /\ \A k \in 1..Len(body) : body[k] \in InputDigits

\* A text that is a number not below zero.
IsNonNegativeNumber(s) == IsNumericText(s) /\ ParseInt(s).val >= 0

\* C35 (as claimed): once getInputs has run, the run went on to checkIsRepo
\* exactly when both texts are numbers not below zero; otherwise it is over
\* with a failure signalled and without any git or platform call.
C35_InputsValidated ==
  pc # "getInputs" =>
    IF IsNonNegativeNumber(rawTimeout) /\ IsNonNegativeNumber(rawInterval)
      THEN /\ pc = "checkIsRepo"
           /\ failures = <<>>
      ELSE /\ pc = "done"
           /\ failures = <<"InputsRejected">>
           /\ calls = {}

\* C36: deleteRemoteBranch is called only in a run whose push of the
\* temporary branch succeeded, and at most once; a run whose creation or
\* push of the temporary branch failed is over without a deletion; and the
\* deletion leaves what was pushed to the target untouched.
C36_DeleteOnlyAfterTempPush ==
  /\ ("deleteRef" \in calls \/ deleteCalls > 0 \/ deleteResult # "none") =>
       /\ tempPushed
       /\ tempCommit # "none"
       /\ deleteCalls = 1
  /\ ( \E j \in 1..Len(failures) :
         failures[j] \in {"TempBranchCreateFailed", "TempBranchPushFailed"} ) =>
       /\ pc = "done"
       /\ ~tempPushed
       /\ "deleteRef" \notin calls
       /\ deleteCalls = 0
       /\ deleteResult = "none"
  /\ (targetPushed /\ deleteResult # "none") => targetCommit = tempCommit

\* C36 witness: the push of the temporary branch failed and the run ended
\* without calling deleteRemoteBranch.
C36_Witness ==
  /\ pc = "done"
  /\ failures = <<"TempBranchPushFailed">>
  /\ tempCommit # "none"
  /\ "pushTemp" \in calls
  /\ "deleteRef" \notin calls
  /\ deleteCalls = 0

\* C37 (as claimed): no run has both logged "> Task completed." and called
\* setFailed.
C37_SuccessExcludesFailure ==
  ~(taskCompleted /\ failures # <<>>)

\* Of everything getStatusOfChecks can give its caller, what carries a
\* failure is thrown and what is returned carries none; and each failing
\* status of the list request is among what is thrown.
NoFailureReturned ==
  /\ \A r \in StatusResults : r.error # "none" <=> r.threw
  /\ \A lo \in ListOutcomes \ {"ok"} :
       \E r \in StatusResults : r.threw /\ r.error = lo

\* C38: whatever the list request, the sampling function either throws or
\* returns a list: no failure of the request, whatever its status, comes
\* back as a result without being thrown; and a sample of the pending poll
\* whose list request failed has ended the process with that error, without
\* the poller evaluating anything.
C38_ListFailureAlwaysThrown ==
  /\ NoFailureReturned
  /\ crashCause \in ListOutcomes \ {"ok"} =>
       /\ pc = "crashed"
       /\ ~taskCompleted

\* C38 witness: the list request of the first sample answered 500, a status
\* the catch block has no case for, and the process ended with that error
\* before the poll resolved.
C38_Witness ==
  /\ pc = "crashed"
  /\ crashCause = "500"
  /\ attempts = 1
  /\ ~sampleSeen
  /\ ~resolved

\* C39: `to` throws exactly when the operation it wraps rejected with
\* something that is not an Error, and then nothing is captured into a
\* pair; what it throws reaches the outer catch of run(), and run() is over
\* with that operation as its last.
C39_NonErrorRejectionPropagates ==
  \A k \in 1..Len(toReturned) :
    /\ toReturned[k].threw <=>
         toReturned[k].error \notin {"null", "Error", "RequestError"}
    /\ toReturned[k].threw =>
         /\ toReturned[k].value = "null"
         /\ k = Len(toReturned)
         /\ pc = "done"

\* C39 witness: the first wrapped operation was captured into a pair, the
\* second rejected with a string, and run() ended there.
C39_Witness ==
  /\ Len(toReturned) = 2
  /\ ~toReturned[1].threw
  /\ toReturned[2].threw
  /\ toReturned[2].error = "string"
  /\ pc = "done"

====
